---- MODULE Spec2Model ----
(***************************************************************************)
(* Model of jsonhandler: NewHandler validates the signature of a candidate *)
(* function by reflection and builds a handler; handler.ServeHTTP decodes  *)
(* the request body, calls the function dynamically and writes the JSON    *)
(* response or the translated error to the http.ResponseWriter.            *)
(*                                                                         *)
(* reflect.Type values are modelled by the Go spelling of the type; the    *)
(* response writer is modelled by the trace of the calls made on it.       *)
(***************************************************************************)
EXTENDS Integers, Sequences, FiniteSets, TLC

VARIABLES
    phase,      \* "new": before NewHandler; "aborted": NewHandler panicked;
                \* "ready": handler built, no request in hand;
                \* "served": ServeHTTP has run for a request
    fn,         \* the candidate handed to NewHandler
    h,          \* the handler struct built by NewHandler
    req,        \* the body of the request being served
    rets,       \* the values the wrapped function returned for this request
    tr,         \* the calls ServeHTTP made, in order, for this request
    outcome     \* "none", "return" (ServeHTTP returned) or "panic"

vars == <<phase, fn, h, req, rets, tr, outcome>>

----------------------------------------------------------------------------
(* Bounds *)

MaxIn == 3       \* longest parameter list of a candidate
MaxOut == 4      \* longest result list of a candidate
MaxOpts == 2     \* most ResponseFuncs a function returns in one call

----------------------------------------------------------------------------
(* reflect.Type: the types candidates are built from *)

TContext == "context.Context"
TString == "string"
TChan == "chan int"
TError == "error"
TOpts == "[]ResponseFunc"
TFuncs == "[]func(*Response)"
TThunks == "[]func()"

InTypes == {TContext, TString}
OutTypes == {TString, TChan, TError, TOpts, TFuncs, TThunks}

\* reflect.Type.Kind
Kind(t) ==
    CASE t = TContext -> "Interface"
      [] t = TError -> "Interface"
      [] t = TString -> "String"
      [] t = TChan -> "Chan"
      [] t \in {TOpts, TFuncs, TThunks} -> "Slice"
      [] OTHER -> "Func"

\* reflect.Type.Elem of the slice types
Elem(t) ==
    CASE t = TOpts -> "ResponseFunc"
      [] t = TFuncs -> "func(*Response)"
      [] t = TThunks -> "func()"
      [] OTHER -> "none"

\* reflect.Type.Implements
Implements(t, iface) ==
    \/ iface = TError /\ t = TError
    \/ iface = TContext /\ t = TContext

\* reflect.Type.ConvertibleTo: identical underlying types
ConvertibleTo(t, u) ==
    \/ t = u
    \/ u = "ResponseFunc" /\ t = "func(*Response)"

----------------------------------------------------------------------------
(* Candidates: what a caller may hand to NewHandler *)

SeqsUpTo(S, n) == UNION {[1..k -> S] : k \in 0..n}

Funcs == [kind : {"Func"}, in : SeqsUpTo(InTypes, MaxIn), out : SeqsUpTo(OutTypes, MaxOut)]

NilFn == [kind |-> "nil", in |-> <<>>, out |-> <<>>]
StringFn == [kind |-> "String", in |-> <<>>, out |-> <<>>]

Candidates == Funcs \cup {NilFn, StringFn}

NumIn(f) == Len(f.in)
NumOut(f) == Len(f.out)

----------------------------------------------------------------------------
(* Signature validation *)

returnInvalid == 0
returnPayload == 1
returnOpts == 2
returnErr == 3

getReturnType(ret) ==
    IF Implements(ret, TError) THEN returnErr
    ELSE IF Kind(ret) = "Slice" /\ Kind(Elem(ret)) = "Func"
            /\ ConvertibleTo(Elem(ret), "ResponseFunc") THEN returnOpts
    ELSE returnPayload

\* the zero value of the handler struct, with fn set
ZeroHandler(f) ==
    [fn |-> f, takesPayload |-> FALSE, payloadType |-> "none",
     errN |-> 0, optsN |-> 0, outN |-> 0]

Ok(hh) == [err |-> "", h |-> hh]
Fail(msg, hh) == [err |-> msg, h |-> hh]

\* validateContext as it would be without the Implements test
validateContextAny(arg) == ""

validateContext(arg) ==
    IF ~Implements(arg, TContext)
    THEN "first argument of handler does not implement context.Context"
    ELSE ""

parsePayload(hh, ht) ==
    IF NumIn(ht) # 2 THEN Ok(hh)
    ELSE Ok([hh EXCEPT !.takesPayload = TRUE, !.payloadType = ht.in[2]])

parseArgs(hh, ht) ==
    IF NumIn(ht) = 0
    THEN Fail("handler function must take a context.Context as its first argument", hh)
    ELSE IF validateContext(ht.in[1]) # ""
    THEN Fail(validateContext(ht.in[1]), hh)
    ELSE parsePayload(hh, ht)

\* the loop of parseReturns over the positions i..n of the results
\* (positions are 1-based in ht.out, 0-based in the handler, as in Go)
RECURSIVE classifyReturns(_, _, _)
classifyReturns(hh, ht, i) ==
    IF i > NumOut(ht) THEN Ok(hh)
    ELSE LET rt == getReturnType(ht.out[i]) IN
         CASE rt = returnErr -> classifyReturns([hh EXCEPT !.errN = i - 1], ht, i + 1)
           [] rt = returnPayload -> classifyReturns([hh EXCEPT !.outN = i - 1], ht, i + 1)
           [] rt = returnOpts -> classifyReturns([hh EXCEPT !.optsN = i - 1], ht, i + 1)
           [] OTHER -> Fail("invalid return type in position", hh)

parseReturns(hh, ht) ==
    LET h0 == [hh EXCEPT !.errN = -1, !.outN = -1, !.optsN = -1]
        n == NumOut(ht)
    IN  IF n = 0 THEN Ok(h0)
        ELSE IF n > 3 THEN Fail("too many return values", h0)
        ELSE LET r == classifyReturns(h0, ht, 1) IN
             IF r.err # "" THEN r
             ELSE IF n > 1 /\ r.h.errN >= 0 /\ r.h.errN < n - 1
             THEN Fail("error must be the last return value", r.h)
             ELSE IF n > 0 /\ r.h.outN >= 0 /\ r.h.outN # 0
             THEN Fail("the payload must be the first return value", r.h)
             ELSE r

parseHandler(hh) ==
    IF hh.fn.kind = "nil" THEN Fail("nil handlers are invalid", hh)
    ELSE IF hh.fn.kind # "Func" THEN Fail("handler must be a function", hh)
    ELSE LET a == parseArgs(hh, hh.fn) IN
         IF a.err # "" THEN a
         ELSE parseReturns(a.h, hh.fn)

----------------------------------------------------------------------------
(* Values: what a wrapped function returns, what ServeHTTP encodes *)

Val(t, str, e, o) == [type |-> t, s |-> str, err |-> e, opts |-> o]

NilVal == Val("nil", "", <<>>, <<>>)

\* errResp{Message: msg}
errResp(msg) == Val("errResp", msg, <<>>, <<>>)

\* An error is the chain it unwraps to, outermost first; nil is the empty
\* chain. A link is a HandlerErr (code, message) or an error of another
\* type, whose message is its whole display string.
HandlerErr(code, message) == [kind |-> "HandlerErr", code |-> code, message |-> message]
PlainErr(text) == [kind |-> "plain", code |-> 0, message |-> text]

NilErr == <<>>

\* HandlerErr.Error, and Error of the other error types
ErrorString(err) ==
    IF err[1].kind = "HandlerErr"
    THEN ToString(err[1].code) \o ": " \o err[1].message
    ELSE err[1].message

\* errors.Unwrap
Unwrap(err) == Tail(err)

\* Error(code, message)
Error(code, message) == <<HandlerErr(code, message)>>

\* Errorf(code, format, a) for a format of the shape "prefix%w"
Errorf(code, prefix, a) ==
    <<HandlerErr(code, prefix \o ErrorString(a))>> \o a

\* errors.As(err, &jErr) with jErr a HandlerErr: the first HandlerErr of the
\* chain, found by unwrapping
RECURSIVE As(_)
As(err) ==
    IF err = NilErr THEN [ok |-> FALSE, jErr |-> HandlerErr(0, "")]
    ELSE IF err[1].kind = "HandlerErr" THEN [ok |-> TRUE, jErr |-> err[1]]
    ELSE As(Unwrap(err))

\* the errors a wrapped function returns
ErrVals ==
    { NilErr,
      <<PlainErr("boom")>>,
      Error(502, "Bad gateway"),
      <<PlainErr("lookup: 404: Not found")>> \o Error(404, "Not found"),
      Errorf(502, "Bad gateway: ", Error(404, "Not found")),
      Errorf(409, "Conflict: ", <<PlainErr("boom")>>) }

\* ResponseFunc values: what a callback does to the *Response it is given
ResponseFunc(op, code, str) == [op |-> op, code |-> code, s |-> str]

Callbacks ==
    { ResponseFunc("StatusCode", 201, ""),
      ResponseFunc("StatusCode", 202, ""),
      ResponseFunc("SetCookie", 0, "a"),
      ResponseFunc("SetCookie", 0, "b"),
      ResponseFunc("Header", 0, "x-trace") }

\* the values of type t a function may return with at most budget callbacks
RetVals(t, budget) ==
    CASE t = TString -> {Val(t, "ok", <<>>, <<>>)}
      [] t = TChan -> {Val(t, "ch", <<>>, <<>>)}
      [] t = TThunks -> {Val(t, "nil", <<>>, <<>>), Val(t, "fns", <<>>, <<>>)}
      [] t = TError -> {Val(t, "", e, <<>>) : e \in ErrVals}
      [] OTHER -> {Val(t, "", <<>>, o) : o \in SeqsUpTo(Callbacks, budget)}

\* the result lists a function with result types ts may return
RECURSIVE Returns(_, _)
Returns(ts, budget) ==
    IF ts = <<>> THEN {<<>>}
    ELSE UNION { {<<v>> \o rest : rest \in Returns(Tail(ts), budget - Len(v.opts))}
                 : v \in RetVals(Head(ts), budget) }

----------------------------------------------------------------------------
(* The codec: encoding/json as jsonhandler uses it *)

Bodies == {"\"world\"", "[]", "{"}

\* json.NewDecoder(r.Body).Decode(pl.Interface()) for a payload of type t
Decode(body, t) ==
    IF body = "{" THEN [ok |-> FALSE, err |-> <<PlainErr("unexpected EOF")>>, v |-> NilVal]
    ELSE IF t = TString /\ body = "\"world\""
    THEN [ok |-> TRUE, err |-> NilErr, v |-> Val(TString, "world", <<>>, <<>>)]
    ELSE [ok |-> FALSE,
          err |-> <<PlainErr("json: cannot unmarshal into Go value of type " \o t)>>,
          v |-> NilVal]

\* enc.Encode(out) with SetIndent("", "  "): the bytes written to buf, none
\* when encoding fails
Encode(out) ==
    CASE out.type = "nil" -> [ok |-> TRUE, s |-> "null\n"]
      [] out.type = TString -> [ok |-> TRUE, s |-> "\"" \o out.s \o "\"\n"]
      [] out.type = "errResp" ->
            [ok |-> TRUE, s |-> "{\n  \"error\": \"" \o out.s \o "\"\n}\n"]
      [] out.type = TThunks /\ out.s = "nil" -> [ok |-> TRUE, s |-> "null\n"]
      [] OTHER -> [ok |-> FALSE, s |-> ""]

----------------------------------------------------------------------------
(* The request: the calls ServeHTTP makes, in order *)

Ev(name, code, str) == [ev |-> name, code |-> code, s |-> str]

StatusOK == 200
StatusBadRequest == 400
StatusInternalServerError == 500

\* http.Error(w, msg, code)
HttpError(w, msg, code) ==
    w \o << Ev("Header.Set", 0, "Content-Type: text/plain; charset=utf-8"),
            Ev("Header.Set", 0, "X-Content-Type-Options: nosniff"),
            Ev("WriteHeader", code, ""),
            Ev("Write", 0, msg \o "\n") >>

\* Response: the carrier handed to the callbacks; hd aliases w.Header()
Response(code) == [StatusCode |-> code, cookies |-> <<>>]

\* o(&res) for one ResponseFunc: the carrier and the trace afterwards
Apply(o, st) ==
    LET w == Append(st.w, Ev("ResponseFunc", o.code, o.op \o o.s)) IN
    CASE o.op = "StatusCode" -> [res |-> [st.res EXCEPT !.StatusCode = o.code], w |-> w]
      [] o.op = "SetCookie" ->
            [res |-> [st.res EXCEPT !.cookies = Append(@, o.s)], w |-> w]
      [] OTHER -> [res |-> st.res, w |-> Append(w, Ev("Header.Set", 0, o.s))]

\* for _, o := range opts { o(&res) }
RECURSIVE ApplyAll(_, _)
ApplyAll(opts, st) ==
    IF opts = <<>> THEN st
    ELSE ApplyAll(Tail(opts), Apply(Head(opts), st))

\* for _, c := range res.cookies { http.SetCookie(w, c) }
RECURSIVE SetCookies(_, _)
SetCookies(w, cookies) ==
    IF cookies = <<>> THEN w
    ELSE SetCookies(Append(w, Ev("SetCookie", 0, Head(cookies))), Tail(cookies))

\* io.Copy(w, &buf): bytes.Buffer.WriteTo writes only when buf holds bytes
Copy(w, buf) == IF buf = "" THEN w ELSE Append(w, Ev("Write", 0, buf))

writeJSON(w, code, out, opts) ==
    LET enc == Encode(out)
        w0 == Append(w, Ev("Encode", IF enc.ok THEN 1 ELSE 0, ""))
        w1 == IF ~enc.ok
              THEN HttpError(w0, "Internal error: Encoding response failed",
                             StatusInternalServerError)
              ELSE w0
        st == ApplyAll(opts, [res |-> Response(code), w |-> w1])
        w3 == Append(st.w, Ev("Header.Set", 0,
                              "content-type: application/json; charset=utf-8"))
        w4 == SetCookies(w3, st.res.cookies)
        w5 == Append(w4, Ev("WriteHeader", st.res.StatusCode, ""))
    IN  Copy(w5, enc.s)

\* handleError as it would be without the errors.As branch
handleErrorAlways500(w, err) ==
    writeJSON(w, StatusInternalServerError, errResp(ErrorString(err)), <<>>)

handleError(w, err) ==
    LET a == As(err)
        msg == IF a.ok THEN a.jErr.message ELSE ErrorString(err)
        code == IF a.ok THEN a.jErr.code ELSE StatusInternalServerError
    IN  writeJSON(w, code, errResp(msg), <<>>)

Returned(w) == [tr |-> w, outcome |-> "return"]
Panicked(w) == [tr |-> w, outcome |-> "panic"]

\* the guard as it would be if it also asked for no callback result
NoUsableReturnOrOpts(hh) == hh.outN < 0 /\ hh.errN < 0 /\ hh.optsN < 0

\* h.outN < 0 && h.errN < 0
NoUsableReturn(hh) == hh.outN < 0 /\ hh.errN < 0

\* responses[h.optsN].Interface().([]ResponseFunc): whether the assertion holds
IsResponseFuncSlice(t) == t = TOpts

\* ServeHTTP from the collection of the responses on
collect(hh, w, responses) ==
    IF NoUsableReturn(hh)
    THEN Returned(Append(w, Ev("WriteHeader", StatusOK, "")))
    ELSE LET out == IF hh.outN >= 0 THEN responses[hh.outN + 1] ELSE NilVal
             err == IF hh.errN >= 0 THEN responses[hh.errN + 1].err ELSE NilErr
         IN  IF hh.optsN >= 0 /\ ~IsResponseFuncSlice(hh.fn.out[hh.optsN + 1])
             THEN Panicked(w)
             ELSE LET opts == IF hh.optsN >= 0 THEN responses[hh.optsN + 1].opts
                              ELSE <<>>
                  IN  IF err # NilErr
                      THEN Returned(handleError(w, err))
                      ELSE Returned(writeJSON(w, StatusOK, out, opts))

\* h.hv.Call(args): reflect panics unless len(args) is the number of
\* parameters of the function
call(hh, w, nargs, responses) ==
    LET w1 == Append(w, Ev("Call", nargs, "")) IN
    IF nargs # NumIn(hh.fn) THEN Panicked(w1)
    ELSE collect(hh, w1, responses)

\* ServeHTTP up to the call: the arguments built for the function, or the
\* response to a body that does not decode
arguments(hh, body) ==
    IF hh.takesPayload
    THEN LET d == Decode(body, hh.payloadType)
             w1 == <<Ev("Decode", IF d.ok THEN 1 ELSE 0, body)>>
         IN  IF ~d.ok
             THEN [done |-> TRUE, nargs |-> 1,
                   w |-> Append(
                      handleError(w1, Errorf(StatusBadRequest, "Bad request: ", d.err)),
                      Ev("Body.Close", 0, ""))]
             ELSE [done |-> FALSE, nargs |-> 2,
                   w |-> Append(w1, Ev("Body.Close", 0, ""))]
    ELSE [done |-> FALSE, nargs |-> 1, w |-> <<>>]

\* handler.ServeHTTP for a request with this body, the wrapped function
\* returning responses (when it is called)
serveHTTP(hh, body, responses) ==
    LET a == arguments(hh, body) IN
    IF a.done THEN Returned(a.w)
    ELSE call(hh, a.w, a.nargs, responses)

\* whether ServeHTTP gets to run the wrapped function for this body
Invokes(hh, body) ==
    LET a == arguments(hh, body) IN ~a.done /\ a.nargs = NumIn(hh.fn)

\* what the wrapped function may return for this request: nothing when it
\* is not run
Responses(hh, body) ==
    IF Invokes(hh, body) THEN Returns(hh.fn.out, MaxOpts) ELSE {<<>>}

\* whether the trace records a completed call of the wrapped function
Called(w) == \E i \in 1..Len(w) : w[i].ev = "Call" /\ w[i].code = NumIn(h.fn)

----------------------------------------------------------------------------

Init ==
    /\ phase = "new"
    /\ fn = NilFn
    /\ h = ZeroHandler(NilFn)
    /\ req = ""
    /\ rets = <<>>
    /\ tr = <<>>
    /\ outcome = "none"

\* NewHandler: panics when parseHandler reports an error
NewHandler ==
    /\ phase = "new"
    /\ \E f \in Candidates :
         /\ fn' = f
         /\ LET r == parseHandler(ZeroHandler(f)) IN
              IF r.err # ""
              THEN /\ phase' = "aborted"
                   /\ h' = ZeroHandler(f)
              ELSE /\ phase' = "ready"
                   /\ h' = r.h
    /\ UNCHANGED <<req, rets, tr, outcome>>

\* one request served by the handler; each request has its own writer
ServeHTTP ==
    /\ phase = "ready"
    /\ \E body \in Bodies : \E responses \in Responses(h, body) :
         LET r == serveHTTP(h, body, responses) IN
         /\ tr' = r.tr
         /\ outcome' = r.outcome
         /\ rets' = responses
         /\ req' = body
    /\ phase' = "served"
    /\ UNCHANGED <<fn, h>>

\* the host server is done with the request and its writer; the handler,
\* unchanged, waits for the next request
NextRequest ==
    /\ phase = "served"
    /\ phase' = "ready"
    /\ req' = ""
    /\ rets' = <<>>
    /\ tr' = <<>>
    /\ outcome' = "none"
    /\ UNCHANGED <<fn, h>>

Next ==
    \/ NewHandler
    \/ ServeHTTP
    \/ NextRequest

Spec == Init /\ [][Next]_vars

----------------------------------------------------------------------------
(* Reading the trace of a request *)

Accepted == phase \in {"ready", "served"}

Positions(name) == {i \in 1..Len(tr) : tr[i].ev = name}

Proj(name) == SelectSeq(tr, LAMBDA e : e.ev = name)

Max(S) == CHOOSE x \in S : \A y \in S : y <= x
Min(S) == CHOOSE x \in S : \A y \in S : x <= y

\* the status the client sees: the code of the first WriteHeader
Status == tr[Min(Positions("WriteHeader"))].code

\* the callbacks and the error the function returned in the positions the
\* handler reads
ReturnedOpts == IF h.optsN >= 0 THEN rets[h.optsN + 1].opts ELSE <<>>
ReturnedErr == IF h.errN >= 0 THEN rets[h.errN + 1].err ELSE NilErr
ReturnedOut == IF h.outN >= 0 THEN rets[h.outN + 1] ELSE NilVal

\* the status the callbacks leave in the carrier
LastStatus(opts, code) ==
    LET S == {i \in 1..Len(opts) : opts[i].op = "StatusCode"} IN
    IF S = {} THEN code ELSE opts[Max(S)].code

CookiesOf(opts) ==
    LET cs == SelectSeq(opts, LAMBDA o : o.op = "SetCookie") IN
    [i \in 1..Len(cs) |-> cs[i].s]

CookiesSet ==
    LET cs == Proj("SetCookie") IN [i \in 1..Len(cs) |-> cs[i].s]

AppliedAre(opts) ==
    Proj("ResponseFunc")
        = [i \in 1..Len(opts) |-> Ev("ResponseFunc", opts[i].code, opts[i].op \o opts[i].s)]

\* one WriteHeader; header changes, cookies and callbacks before it; the
\* body after it
WellOrdered ==
    /\ Cardinality(Positions("WriteHeader")) = 1
    /\ \A i \in Positions("Header.Set") \cup Positions("SetCookie")
                  \cup Positions("ResponseFunc") \cup Positions("Encode") :
          i < Min(Positions("WriteHeader"))
    /\ \A i \in Positions("Write") : i > Min(Positions("WriteHeader"))

\* the body of an error response with this message
ErrorBody(msg) == "{\n  \"error\": \"" \o msg \o "\"\n}\n"

\* the first HandlerErr of an error chain, if any
TypedAt(err) == {i \in 1..Len(err) : err[i].kind = "HandlerErr"}

----------------------------------------------------------------------------
(* Claims *)

\* C1: for every accepted function and every request, ServeHTTP returns
\* without panicking and with a response written; the function is called
\* with as many arguments as it declares. (That the response is written
\* once only is C3.)
C1_OneResponseNoPanic ==
    phase = "served" =>
        /\ outcome = "return"
        /\ Positions("WriteHeader") # {}
        /\ \A i \in Positions("Call") : tr[i].code = NumIn(fn)

\* C2: a function with more than one non-context parameter (three or more
\* parameters) is rejected by NewHandler.
C2_ExtraParamsRejected ==
    (phase # "new" /\ fn.kind = "Func" /\ NumIn(fn) > 2) => phase = "aborted"

\* C3: whenever ServeHTTP returns, WriteHeader has been called exactly once,
\* every header change, cookie and callback came before it and every body
\* Write after it.
C3_WriteHeaderOnceInOrder ==
    (phase = "served" /\ outcome = "return") => WellOrdered

\* C4: a handler that takes a payload closes the request body exactly once
\* on every exit; when decoding fails the status is 400, the body is the
\* error object whose message is "Bad request: " followed by the decode
\* error, and the function is not called.
C4_DecodeFailureIs400 ==
    (phase = "served" /\ h.takesPayload) =>
        /\ Cardinality(Positions("Body.Close")) = 1
        /\ tr[1].ev = "Decode"
        /\ tr[1].code = 0 =>
              /\ outcome = "return"
              /\ Positions("Call") = {}
              /\ WellOrdered
              /\ Status = 400
              /\ Proj("Write") = <<Ev("Write", 0,
                    ErrorBody("Bad request: " \o Decode(req, h.payloadType).err[1].message))>>
              /\ tr[Len(tr)].ev = "Body.Close"
        /\ tr[1].code = 1 =>
              /\ tr[2].ev = "Body.Close"
              /\ Positions("Call") = {3}

\* C4 witness: a payload-taking handler answered 400 to a body that does
\* not decode, and closed the body.
C4_Witness ==
    /\ phase = "served"
    /\ h.takesPayload
    /\ h.payloadType = TString
    /\ req = "[]"
    /\ Positions("WriteHeader") # {}
    /\ Status = 400
    /\ Positions("Body.Close") # {}

\* C5: when the function returns a non-nil error the response carries the
\* code and message of the first HandlerErr of its chain, or 500 and the
\* error's string when there is none; the body is the error object and no
\* callback is applied.
C5_ErrorTranslated ==
    (phase = "served" /\ Called(tr) /\ ReturnedErr # NilErr) =>
        /\ outcome = "return"
        /\ WellOrdered
        /\ Positions("ResponseFunc") = {}
        /\ LET T == TypedAt(ReturnedErr) IN
           IF T # {}
           THEN /\ Status = ReturnedErr[Min(T)].code
                /\ Proj("Write") = <<Ev("Write", 0, ErrorBody(ReturnedErr[Min(T)].message))>>
           ELSE /\ Status = 500
                /\ Proj("Write") = <<Ev("Write", 0, ErrorBody(ReturnedErr[1].message))>>

\* C6: when the function returns a payload and no error, the payload is
\* encoded, then the returned callbacks are applied in list order, then the
\* cookies they queued are set in order, then the status the callbacks left
\* (200 by default) is written once, then the encoded payload.
C6_SuccessPath ==
    (phase = "served" /\ Called(tr) /\ h.outN >= 0 /\ ReturnedErr = NilErr) =>
        /\ outcome = "return"
        /\ WellOrdered
        /\ AppliedAre(ReturnedOpts)
        /\ CookiesSet = CookiesOf(ReturnedOpts)
        /\ Status = LastStatus(ReturnedOpts, 200)
        /\ Encode(ReturnedOut).ok
        /\ Proj("Write") = <<Ev("Write", 0, Encode(ReturnedOut).s)>>

C8_OnlyCallbacksApplied ==
    (phase = "served" /\ fn.out = <<TOpts>> /\ Called(tr)) =>
        /\ AppliedAre(rets[1].opts)
        /\ Status = LastStatus(rets[1].opts, 200)

\* C9: an accepted function has at most 3 results, and when it has 2 or
\* more, every result classified as an error is the last one and every
\* result classified as a payload is the first one.
C9_ErrorLastPayloadFirst ==
    Accepted =>
        /\ NumOut(fn) <= 3
        /\ NumOut(fn) >= 2 =>
              \A i \in 1..NumOut(fn) :
                 /\ getReturnType(fn.out[i]) = returnErr => i = NumOut(fn)
                 /\ getReturnType(fn.out[i]) = returnPayload => i = 1

\* C10: no accepted function has two results classified into the same role.
C10_RolesInjective ==
    Accepted =>
        \A i, j \in 1..NumOut(fn) :
            getReturnType(fn.out[i]) = getReturnType(fn.out[j]) => i = j

\* C11: NewHandler panics, so that no request is ever served, when the
\* candidate is nil, is not a function, has no parameters or has a first
\* parameter that is not a context.Context; it does not panic for a
\* function of a context and a payload returning a result and an error.
C11_BadCandidatesPanic ==
    phase # "new" =>
        /\ ( \/ fn.kind = "nil"
             \/ fn.kind # "Func"
             \/ NumIn(fn) = 0
             \/ fn.in[1] # "context.Context" )
           => /\ phase = "aborted"
              /\ tr = <<>>
              /\ outcome = "none"
        /\ ( /\ fn.kind = "Func"
             /\ NumIn(fn) = 2
             /\ fn.in[1] = "context.Context"
             /\ NumOut(fn) = 2
             /\ fn.out[2] = "error" )
           => phase # "aborted"

\* C11 witness: a function whose first parameter is a string, not a
\* context, was handed to NewHandler, which panicked.
C11_Witness ==
    /\ phase = "aborted"
    /\ fn.kind = "Func"
    /\ NumIn(fn) = 2
    /\ fn.in[1] = "string"
    /\ fn.out = <<"string", "error">>

====
